---------------------------- MODULE Spec2Model ----------------------------
(***************************************************************************)
(* Fiscal-compliance and ledger-posting core of DePollosPos.               *)
(*                                                                         *)
(* The persisted state is the PostgreSQL database (init_db_postgres.py):   *)
(* one variable per table, a table being the sequence of its committed     *)
(* rows in commit order, a row's id being its position.  Every save        *)
(* handler of app.py runs in its own connection; a handler is split only   *)
(* where another connection can observe or change the database between     *)
(* two of its statements: after a read that a later write depends on, and  *)
(* after each conn.commit().  Writes of an open transaction are invisible  *)
(* to the others (READ COMMITTED) and are therefore applied at the commit. *)
(***************************************************************************)
EXTENDS Integers, Sequences, FiniteSets, Bags, TLC

\* ------------------------------------------------------------------ bounds
\* Transactions (rows of all transaction tables together) the model creates.
MaxTx == 2
\* Monetary values of a request range over 0..MaxValor.
MaxValor == 1
\* Invoice numbers a client may supply range over 1..MaxNumero.
MaxNumero == 2
\* dian_rango_hasta: the migration's 5000000 scaled to the model, so that the
\* invoices the model creates can run past it.
RangoHasta == 1
\* dian_rango_desde as the migration sets it
RangoDesde == 1

\* ------------------------------------------------------------- constants
Reqs == {"r1", "r2"}
Valores == 0..MaxValor
Numeros == 1..MaxNumero
cuentas_basicas ==
    {"1105", "1110", "1305", "1435", "1540", "2205", "2365", "2404", "3105",
     "3605", "4135", "4175", "4199", "5105", "5135", "5140", "5195", "6135"}
FormasPago == {"contado", "credito", "transferencia"}
\* Outcome of one posting transaction: no error, or an exception raised by
\* the first or by the second INSERT INTO movimientos_contables.
Fallos == {"no", "insert1", "insert2"}

VARIABLES
    puc,                  \* table puc: the bag of its rows [codigo, nombre]
    facturas,             \* rows [numero, total, prefijo]
    compras,              \* rows [total, forma_pago]
    recibos_caja,         \* rows [valor]
    comprobantes_egreso,  \* rows [valor]
    notas_credito,        \* rows [factura_id, total]
    transformaciones,     \* rows [total_salida, total_entrada]
    movimientos_contables,\* rows [cuenta, debito, credito, modulo, referencia_id]
    configuracion,        \* [dian_prefijo, dian_rango_desde, dian_rango_hasta]
    req,                  \* per connection: the handler it runs and where it is
    sig,                  \* last result of obtener_siguiente_numero_factura
    lineas,               \* argument lineas of calcular_totales_factura
    redondear,            \* argument redondeo of calcular_totales_factura
    totales,              \* the record calcular_totales_factura returned
    nit,                  \* argument nit of validar_nit, a sequence of characters
    digito_verificacion,  \* argument digito_verificacion of validar_nit
    validacion,           \* the tuple validar_nit returned
    llamadas,             \* the last two calls of generar_cufe, with their results
    reloj,                \* datetime.now(): seconds since midnight
    cufes,                \* columns cufe, qr_code, uuid of facturas by id; no entry: NULL
    detalle_factura,      \* rows [factura_id, producto_id, cantidad]
    detalle_nota_credito, \* rows [nota_id, producto_id, cantidad]
    productos,            \* column stock of productos by id, for the products
                          \* that invoices and credit notes name (purchases
                          \* and transformations are for other products)
    requests,             \* RateLimiter.requests: key -> list of timestamps
    last_cleanup,         \* RateLimiter.last_cleanup
    ahora,                \* time.time(), in seconds since the limiter was built
    limite,               \* the max_requests and window the callers pass
    permitidos,           \* per key, the times of the calls answered True
    ultima                \* the last call of is_allowed and its answer

tablas == <<facturas, compras, recibos_caja, comprobantes_egreso,
            notas_credito, transformaciones>>
\* what invoices and credit notes write besides their header row
inventario == <<detalle_factura, detalle_nota_credito, productos>>
db == <<puc, facturas, compras, recibos_caja, comprobantes_egreso,
        notas_credito, transformaciones, movimientos_contables, configuracion,
        inventario>>
\* arguments and result of validar_nit
identv == <<nit, digito_verificacion, validacion>>
\* the state of the fingerprint functions
huellav == <<llamadas, reloj, cufes>>
\* the state no save handler of app.py reads or writes
\* the rate limiter, its clock and the record of its answers
limitador == <<requests, last_cleanup, ahora, limite, permitidos, ultima>>
puros == <<sig, lineas, redondear, totales, identv, huellav, limitador>>
vars == <<db, req, puros>>

\* --------------------------------------------------------------- helpers
\* SELECT codigo FROM puc
codigos_puc == {f.codigo : f \in BagToSet(puc)}

RECURSIVE SumSeq(_, _)
\* sum of field f over the rows of sequence s
SumSeq(s, f) == IF s = <<>> THEN 0 ELSE s[1][f] + SumSeq(Tail(s), f)

RECURSIVE MaxNumeroDe(_)
\* SELECT MAX(numero): 0 stands for SQL NULL (no row)
MaxNumeroDe(s) ==
    IF s = <<>> THEN 0
    ELSE LET m == MaxNumeroDe(Tail(s)) IN IF s[1].numero > m THEN s[1].numero ELSE m

SelectSeq2(s, modulo, ref) ==
    SelectSeq(s, LAMBDA e : e.modulo = modulo /\ e.referencia_id = ref)

\* the ledger rows of one transaction: WHERE modulo = .. AND referencia_id = ..
MovimientosDe(modulo, ref) == SelectSeq2(movimientos_contables, modulo, ref)

Idle == [pc |-> "idle", sesion |-> FALSE, op |-> "-", id |-> 0, numero |-> 0,
         total |-> 0, lines |-> <<>>, resp |-> "-"]

EnCurso == Cardinality({r \in Reqs : req[r].pc = "leido"})
NumTx == Len(facturas) + Len(compras) + Len(recibos_caja)
         + Len(comprobantes_egreso) + Len(notas_credito) + Len(transformaciones)
\* the model creates at most MaxTx transactions
HayCupo == NumTx + EnCurso < MaxTx


\* ------------------------------------------------- LedgerPostingEngine
Movimiento(cuenta, debito, credito, modulo, ref) ==
    [cuenta |-> cuenta, debito |-> debito, credito |-> credito,
     modulo |-> modulo, referencia_id |-> ref]

\* C4 mutant: each insert is published as it is made; an account that is
\* missing or an insert that raises stops the posting where it is.
AsentarParcial(ctaDebito, ctaCredito, monto, modulo, ref, fallo) ==
    IF ctaDebito \in codigos_puc /\ fallo # "insert1"
    THEN IF ctaCredito \in codigos_puc /\ fallo = "no"
         THEN movimientos_contables \o
              << Movimiento(ctaDebito, monto, 0, modulo, ref),
                 Movimiento(ctaCredito, 0, monto, modulo, ref) >>
         ELSE Append(movimientos_contables,
                     Movimiento(ctaDebito, monto, 0, modulo, ref))
    ELSE movimientos_contables

\* The body shared by the five crear_asiento_* functions once the
\* transaction row is read: both accounts are looked up, and only when both
\* exist the debit row and the credit row are inserted; conn.commit()
\* publishes them together, an exception in either insert rolls both back.
Asentar(ctaDebito, ctaCredito, monto, modulo, ref, fallo) ==
    IF ctaDebito \in codigos_puc /\ ctaCredito \in codigos_puc /\ fallo = "no"
    THEN movimientos_contables \o
         << Movimiento(ctaDebito, monto, 0, modulo, ref),
            Movimiento(ctaCredito, 0, monto, modulo, ref) >>
    ELSE movimientos_contables

\* Each returns the value of movimientos_contables after the call.
crear_asiento_venta(factura_id, fallo) ==
    IF factura_id \notin DOMAIN facturas THEN movimientos_contables
    ELSE Asentar("1105", "4135", facturas[factura_id].total, "ventas",
                 factura_id, fallo)

crear_asiento_compra(compra_id, fallo) ==
    IF compra_id \notin DOMAIN compras THEN movimientos_contables
    ELSE Asentar("1435",
                 IF compras[compra_id].forma_pago = "contado" THEN "1105" ELSE "2205",
                 compras[compra_id].total, "compras", compra_id, fallo)

crear_asiento_recibo(recibo_id, fallo) ==
    IF recibo_id \notin DOMAIN recibos_caja THEN movimientos_contables
    ELSE Asentar("1105", "4199", recibos_caja[recibo_id].valor, "recibo_caja",
                 recibo_id, fallo)

crear_asiento_egreso(egreso_id, fallo) ==
    IF egreso_id \notin DOMAIN comprobantes_egreso THEN movimientos_contables
    ELSE Asentar("5195", "1105", comprobantes_egreso[egreso_id].valor, "egreso",
                 egreso_id, fallo)

crear_asiento_nota_credito(nota_id, fallo) ==
    IF nota_id \notin DOMAIN notas_credito THEN movimientos_contables
    ELSE Asentar("4135", "4175", notas_credito[nota_id].total, "notas_credito",
                 nota_id, fallo)

\* The posting block at the end of save_transformacion: one account, 1435,
\* debited with total_entrada and credited with total_salida.  An exception
\* is printed; the connection is closed without a commit, which discards
\* the rows inserted so far.
asiento_transformacion(trans_id, fallo) ==
    IF "1435" \in codigos_puc /\ fallo = "no"
    THEN movimientos_contables \o
         << Movimiento("1435", transformaciones[trans_id].total_entrada, 0,
                       "transformacion", trans_id),
            Movimiento("1435", 0, transformaciones[trans_id].total_salida,
                       "transformacion", trans_id) >>
    ELSE movimientos_contables

\* the posting a handler op makes for the row id it has just committed
AsientoDe(op, id, fallo) ==
    CASE op = "facturacion_save" -> crear_asiento_venta(id, fallo)
      [] op = "compras_save" -> crear_asiento_compra(id, fallo)
      [] op = "recibo_caja_save" -> crear_asiento_recibo(id, fallo)
      [] op = "comprobante_egreso_save" -> crear_asiento_egreso(id, fallo)
      [] op = "save_nota_credito" -> crear_asiento_nota_credito(id, fallo)
      [] op = "save_transformacion" -> asiento_transformacion(id, fallo)

\* ---------------------------------------------------------- handlers
\* A handler that has committed its rows and is about to post them; sesion
\* is whether the request carries a session with a user.
Comprometido(r, sesion, op, id) ==
    req' = [req EXCEPT ![r] = [pc |-> "asiento", sesion |-> sesion,
                               op |-> op, id |-> id,
                               numero |-> 0, total |-> 0, lines |-> <<>>,
                               resp |-> "-"]]

\* A handler that returns response resp.
Responde(r, sesion, op, id, resp) ==
    req' = [req EXCEPT ![r] = [pc |-> "fin", sesion |-> sesion,
                               op |-> op, id |-> id, numero |-> 0,
                               total |-> 0, lines |-> <<>>, resp |-> resp]]

\* the products of the catalogue and a product id that is not in it
Productos == {1, 2}
ProductoAjeno == 9

\* an invoice of total t as one line of product 1 at price 1; no line for 0
UnaLinea(t) ==
    IF t = 0 THEN <<>> ELSE <<[producto_id |-> 1, cantidad |-> t, total |-> t]>>

\* ---- the transaction of facturacion_save, statement by statement
\* the tables the transaction writes
Estado == [facturas |-> facturas, detalle_factura |-> detalle_factura,
           productos |-> productos]

RECURSIVE SentenciasDeLineas(_, _)
\* for l in lines: INSERT INTO detalle_factura, then UPDATE productos
SentenciasDeLineas(factura_id, lines) ==
    IF lines = <<>> THEN <<>>
    ELSE << [sql |-> "insert_detalle", factura_id |-> factura_id,
             producto_id |-> lines[1].producto_id, cantidad |-> lines[1].cantidad],
            [sql |-> "update_stock", factura_id |-> factura_id,
             producto_id |-> lines[1].producto_id, cantidad |-> lines[1].cantidad] >>
         \o SentenciasDeLineas(factura_id, Tail(lines))

\* the statements of one request, in the order the handler executes them
Sentencias(factura_id, lines) ==
    << [sql |-> "insert_factura", factura_id |-> factura_id,
        producto_id |-> 0, cantidad |-> 0] >>
    \o SentenciasDeLineas(factura_id, lines)

\* detalle_factura.producto_id REFERENCES productos(id): the insert raises
Lanza(e, s) ==
    s.sql = "insert_detalle" /\ s.producto_id \notin DOMAIN e.productos

\* the tables as the transaction sees them after statement s
Sentencia(e, s, cabecera) ==
    CASE s.sql = "insert_factura" ->
             [e EXCEPT !.facturas = Append(@, cabecera)]
      [] s.sql = "insert_detalle" ->
             [e EXCEPT !.detalle_factura =
                 Append(@, [factura_id |-> s.factura_id,
                            producto_id |-> s.producto_id,
                            cantidad |-> s.cantidad])]
      [] s.sql = "update_stock" ->
             [e EXCEPT !.productos =
                 [p \in DOMAIN @ |-> IF p = s.producto_id
                                     THEN @[p] - s.cantidad ELSE @[p]]]

RECURSIVE Ejecutar(_, _, _)
Ejecutar(e, ss, cabecera) ==
    IF ss = <<>> THEN e
    ELSE Ejecutar(Sentencia(e, ss[1], cabecera), Tail(ss), cabecera)

\* C26 mutant: a connection in autocommit mode, where rollback() undoes
\* nothing.
rollback_autocommit(antes, despues) == despues

\* conn.rollback(): the tables are as they were before the transaction
rollback(antes, despues) == antes

\* the header row and the statements of the request connection r is serving
CabeceraDe(r) ==
    [numero |-> req[r].numero, total |-> req[r].total, prefijo |-> "SETT"]
SentenciasDe(r) == Sentencias(Len(facturas) + 1, req[r].lines)
\* the statements that may raise: any of them (the connection may drop), and
\* conn.commit() itself, numbered one past the last
PuntosDeFallo(r) ==
    {k \in 1..(Len(SentenciasDe(r)) + 1) :
        \A j \in 1..(k - 1) : ~Lanza(Estado, SentenciasDe(r)[j])}

\* facturacion_save up to the header insert: the session check, the total of
\* the lines and, when the request carries no number (None, 0 and "" are all
\* falsy), SELECT MAX(numero) + 1 over the committed invoices.
facturacion_save_leer(r, autenticado, numero, lines) ==
    /\ req[r].pc = "idle"
    /\ IF ~autenticado
       THEN Responde(r, autenticado, "facturacion_save", 0, "no autorizado")
       ELSE /\ HayCupo
            /\ req' = [req EXCEPT ![r] =
                   [pc |-> "leido", sesion |-> autenticado,
                    op |-> "facturacion_save", id |-> 0,
                    numero |-> IF numero = 0 THEN MaxNumeroDe(facturas) + 1
                               ELSE numero,
                    total |-> SumSeq(lines, "total"), lines |-> lines,
                    resp |-> "-"]]
    /\ UNCHANGED <<db, puros>>

\* facturacion_save from the header insert to conn.commit(): header, detail
\* lines and stock updates become visible together.  No statement compares
\* numero with the rows already there, and the table has no UNIQUE(numero).
facturacion_save_commit(r) ==
    /\ req[r].pc = "leido"
    /\ \A j \in DOMAIN SentenciasDe(r) : ~Lanza(Estado, SentenciasDe(r)[j])
    /\ LET e == Ejecutar(Estado, SentenciasDe(r), CabeceraDe(r))
       IN  /\ facturas' = e.facturas
           /\ detalle_factura' = e.detalle_factura
           /\ productos' = e.productos
    /\ Comprometido(r, req[r].sesion, "facturacion_save", Len(facturas) + 1)
    /\ UNCHANGED <<puc, compras, recibos_caja, comprobantes_egreso, notas_credito,
                   transformaciones, movimientos_contables, configuracion,
                   detalle_nota_credito, puros>>

\* facturacion_save when statement k raises: the statements before it have
\* run inside the transaction, and the handler rolls it back.
facturacion_save_error(r, k) ==
    /\ req[r].pc = "leido"
    /\ k \in PuntosDeFallo(r)
    /\ LET e == rollback(Estado, Ejecutar(Estado, SubSeq(SentenciasDe(r), 1, k - 1),
                                          CabeceraDe(r)))
       IN  /\ facturas' = e.facturas
           /\ detalle_factura' = e.detalle_factura
           /\ productos' = e.productos
    /\ Responde(r, req[r].sesion, "facturacion_save", 0, "error")
    /\ UNCHANGED <<puc, compras, recibos_caja, comprobantes_egreso, notas_credito,
                   transformaciones, movimientos_contables, configuracion,
                   detalle_nota_credito, puros>>

\* compras_save up to conn.commit().  forma_pago outside the CHECK constraint
\* of table compras makes the header insert raise.
compras_save(r, autenticado, forma_pago, total) ==
    /\ req[r].pc = "idle"
    /\ IF ~autenticado
       THEN Responde(r, autenticado, "compras_save", 0, "no autorizado") /\ UNCHANGED compras
       ELSE IF forma_pago \notin FormasPago
       THEN Responde(r, autenticado, "compras_save", 0, "error") /\ UNCHANGED compras
       ELSE /\ HayCupo
            /\ compras' = Append(compras, [total |-> total, forma_pago |-> forma_pago])
            /\ Comprometido(r, autenticado, "compras_save", Len(compras) + 1)
    /\ UNCHANGED <<puc, facturas, recibos_caja, comprobantes_egreso, notas_credito,
                   transformaciones, movimientos_contables, configuracion, inventario, puros>>

\* C29 mutant: the handler without its session check.
recibo_caja_save_sin_sesion(r, autenticado, valor) ==
    /\ req[r].pc = "idle"
    /\ HayCupo
    /\ recibos_caja' = Append(recibos_caja, [valor |-> valor])
    /\ Comprometido(r, autenticado, "recibo_caja_save", Len(recibos_caja) + 1)
    /\ UNCHANGED <<puc, facturas, compras, comprobantes_egreso, notas_credito,
                   transformaciones, movimientos_contables, configuracion, inventario, puros>>

recibo_caja_save(r, autenticado, valor) ==
    /\ req[r].pc = "idle"
    /\ IF ~autenticado
       THEN Responde(r, autenticado, "recibo_caja_save", 0, "no autorizado") /\ UNCHANGED recibos_caja
       ELSE /\ HayCupo
            /\ recibos_caja' = Append(recibos_caja, [valor |-> valor])
            /\ Comprometido(r, autenticado, "recibo_caja_save", Len(recibos_caja) + 1)
    /\ UNCHANGED <<puc, facturas, compras, comprobantes_egreso, notas_credito,
                   transformaciones, movimientos_contables, configuracion, inventario, puros>>

comprobante_egreso_save(r, autenticado, valor) ==
    /\ req[r].pc = "idle"
    /\ IF ~autenticado
       THEN Responde(r, autenticado, "comprobante_egreso_save", 0, "no autorizado") /\ UNCHANGED comprobantes_egreso
       ELSE /\ HayCupo
            /\ comprobantes_egreso' = Append(comprobantes_egreso, [valor |-> valor])
            /\ Comprometido(r, autenticado, "comprobante_egreso_save", Len(comprobantes_egreso) + 1)
    /\ UNCHANGED <<puc, facturas, compras, recibos_caja, notas_credito,
                   transformaciones, movimientos_contables, configuracion, inventario, puros>>

\* a credit note of total t as one returned line of product 1
UnaDevolucion(t) ==
    IF t = 0 THEN <<>> ELSE <<[producto_id |-> 1, cantidad |-> t]>>

RECURSIVE DetalleNota(_, _)
\* the rows save_nota_credito inserts: one per line with cantidad > 0
DetalleNota(nota_id, lines) ==
    IF lines = <<>> THEN <<>>
    ELSE (IF lines[1].cantidad > 0
          THEN <<[nota_id |-> nota_id, producto_id |-> lines[1].producto_id,
                  cantidad |-> lines[1].cantidad]>>
          ELSE <<>>)
         \o DetalleNota(nota_id, Tail(lines))

RECURSIVE Cantidad(_, _)
\* the quantity of product p in detail rows d
Cantidad(d, p) ==
    IF d = <<>> THEN 0
    ELSE (IF d[1].producto_id = p THEN d[1].cantidad ELSE 0) + Cantidad(Tail(d), p)

\* save_nota_credito up to conn.commit(): a total <= 0 is turned away; the
\* foreign keys notas_credito.factura_id and detalle_nota_credito.producto_id
\* make an insert raise when the invoice or the product does not exist.  The
\* total is a form field of its own, and no statement compares the total or
\* the quantities with the invoice.
save_nota_credito(r, autenticado, factura_id, total, lines) ==
    /\ req[r].pc = "idle"
    /\ IF ~autenticado
       THEN /\ Responde(r, autenticado, "save_nota_credito", 0, "login")
            /\ UNCHANGED <<notas_credito, detalle_nota_credito, productos>>
       ELSE IF total <= 0
       THEN /\ Responde(r, autenticado, "save_nota_credito", 0, "redirect")
            /\ UNCHANGED <<notas_credito, detalle_nota_credito, productos>>
       ELSE IF \/ factura_id \notin DOMAIN facturas
               \/ \E i \in DOMAIN lines :
                      lines[i].cantidad > 0 /\ lines[i].producto_id \notin DOMAIN productos
       THEN /\ Responde(r, autenticado, "save_nota_credito", 0, "redirect")
            /\ UNCHANGED <<notas_credito, detalle_nota_credito, productos>>
       ELSE /\ HayCupo
            /\ notas_credito' = Append(notas_credito,
                                       [factura_id |-> factura_id, total |-> total])
            /\ LET d == DetalleNota(Len(notas_credito) + 1, lines)
               IN  /\ detalle_nota_credito' = detalle_nota_credito \o d
                   /\ productos' = [p \in DOMAIN productos |->
                                       productos[p] + Cantidad(d, p)]
            /\ Comprometido(r, autenticado, "save_nota_credito", Len(notas_credito) + 1)
    /\ UNCHANGED <<puc, facturas, compras, recibos_caja, comprobantes_egreso,
                   transformaciones, movimientos_contables, configuracion,
                   detalle_factura, puros>>

\* save_transformacion up to the first conn.commit(): total_salida is the
\* cost of the consumed products, total_entrada the cost of the produced ones.
save_transformacion(r, autenticado, total_salida, total_entrada) ==
    /\ req[r].pc = "idle"
    /\ IF ~autenticado
       THEN Responde(r, autenticado, "save_transformacion", 0, "no autorizado") /\ UNCHANGED transformaciones
       ELSE /\ HayCupo
            /\ transformaciones' = Append(transformaciones,
                   [total_salida |-> total_salida, total_entrada |-> total_entrada])
            /\ Comprometido(r, autenticado, "save_transformacion", Len(transformaciones) + 1)
    /\ UNCHANGED <<puc, facturas, compras, recibos_caja, comprobantes_egreso,
                   notas_credito, movimientos_contables, configuracion, inventario, puros>>

\* The rest of every save handler after its conn.commit(): the posting, in a
\* transaction of its own, and the success response whatever the posting did.
save_asiento(r, fallo) ==
    /\ req[r].pc = "asiento"
    /\ movimientos_contables' = AsientoDe(req[r].op, req[r].id, fallo)
    /\ Responde(r, req[r].sesion, req[r].op, req[r].id, "success")
    /\ UNCHANGED <<puc, tablas, configuracion, inventario, puros>>

\* the name a client gives an account, and the one seed_puc gives
NombreCliente == "cliente"
NombreBasico == "basica"

\* C24 mutant: a table without the UNIQUE constraint on codigo.
add_cuenta_sin_unique(r, autenticado, codigo, nombre) ==
    /\ req[r].pc = "idle"
    /\ IF ~autenticado
       THEN Responde(r, autenticado, "add_cuenta", 0, "no autorizado") /\ UNCHANGED puc
       ELSE /\ puc' = puc (+) SetToBag({[codigo |-> codigo, nombre |-> nombre]})
            /\ Responde(r, autenticado, "add_cuenta", 0, "success")
    /\ UNCHANGED <<tablas, movimientos_contables, configuracion, inventario, puros>>

\* add_cuenta: a missing field is refused; the UNIQUE constraint on
\* puc.codigo raises UniqueViolation.
add_cuenta(r, autenticado, codigo, nombre) ==
    /\ req[r].pc = "idle"
    /\ IF ~autenticado
       THEN Responde(r, autenticado, "add_cuenta", 0, "no autorizado") /\ UNCHANGED puc
       ELSE IF codigo = "" \/ nombre = "" \/ codigo \in codigos_puc
       THEN Responde(r, autenticado, "add_cuenta", 0, "error") /\ UNCHANGED puc
       ELSE /\ puc' = puc (+) SetToBag({[codigo |-> codigo, nombre |-> nombre]})
            /\ Responde(r, autenticado, "add_cuenta", 0, "success")
    /\ UNCHANGED <<tablas, movimientos_contables, configuracion, inventario, puros>>

\* seed_puc: INSERT ... ON CONFLICT (codigo) DO NOTHING for the basic accounts.
seed_puc(r, autenticado) ==
    /\ req[r].pc = "idle"
    /\ IF ~autenticado
       THEN Responde(r, autenticado, "seed_puc", 0, "no autorizado") /\ UNCHANGED puc
       ELSE /\ puc' = puc (+) SetToBag({[codigo |-> c, nombre |-> NombreBasico] :
                                          c \in cuentas_basicas \ codigos_puc})
            /\ Responde(r, autenticado, "seed_puc", 0, "success")
    /\ UNCHANGED <<tablas, movimientos_contables, configuracion, inventario, puros>>

\* ------------------------------------------------------- specifications
\* The rows the migration writes into table configuracion.
ConfigInicial == [dian_prefijo |-> "SETT", dian_rango_desde |-> RangoDesde,
                  dian_rango_hasta |-> RangoHasta]

\* obtener_siguiente_numero_factura has not been called yet
SinResultado == [numero |-> 0, prefijo |-> "-", es_valido |-> FALSE,
                 mensaje |-> "-", ultimo_numero |-> 0]
\* calcular_totales_factura has not been called on the current lineas
SinTotales == [pendiente |-> TRUE]
\* validar_nit has not been called
SinValidacion == [pendiente |-> TRUE]

\* no call of validar_nit, generar_cufe or generar_cufe_factura yet
InitIdent ==
    /\ nit = <<>>
    /\ digito_verificacion = [tipo |-> "None"]
    /\ validacion = SinValidacion

InitHuella ==
    /\ llamadas = <<>>
    /\ reloj = 0
    /\ cufes = <<>>

\* ---------------------------------------------------------- RateLimiter
\* self.cleanup_interval and the age _cleanup_old_requests keeps, in seconds
cleanup_interval == 300
UnaHora == 3600

\* the keys the callers pass
Claves == {"ip1", "ip2"}
\* is_allowed(key, max_requests=100, window=3600): the defaults
PorDefecto == [max_requests |-> 100, window |-> UnaHora]
\* the limits the model passes: none, one or two requests per minute, per
\* hour and per two hours
Limites ==
    {[max_requests |-> m, window |-> w] : m \in 0..2, w \in {60, UnaHora, 2 * UnaHora}}
\* the seconds that pass between one call and the next
Esperas == {0, 1, 59, cleanup_interval + 1, UnaHora + 1}
\* calls of is_allowed in one behaviour
MaxLlamadas == 3

\* [t for t in times if t > cutoff]
Recientes(times, cutoff) == SelectSeq(times, LAMBDA t : t > cutoff)

\* self.requests[key] of a defaultdict(list)
TiemposDe(rq, key) == IF key \in DOMAIN rq THEN rq[key] ELSE <<>>

\* _cleanup_old_requests: every list keeps what is younger than one hour, and
\* the keys whose list is left empty are deleted
_cleanup_old_requests(rq, now) ==
    LET cutoff == now - UnaHora
        vivas == {k \in DOMAIN rq : Recientes(rq[k], cutoff) # <<>>}
    IN  [k \in vivas |-> Recientes(rq[k], cutoff)]

\* is_allowed, espera seconds after the previous call
is_allowed(key, espera) ==
    /\ Len(ultima) < MaxLlamadas
    /\ LET now == ahora + espera
           limpiar == now - last_cleanup > cleanup_interval
           rq == IF limpiar THEN _cleanup_old_requests(requests, now) ELSE requests
           cutoff == now - limite.window
           times == Recientes(TiemposDe(rq, key), cutoff)
           ok == ~(Len(times) >= limite.max_requests)
       IN  /\ ahora' = now
           /\ last_cleanup' = IF limpiar THEN now ELSE last_cleanup
           /\ requests' = [k \in DOMAIN rq \cup {key} |->
                              IF k = key
                              THEN (IF ok THEN Append(times, now) ELSE times)
                              ELSE rq[k]]
           /\ permitidos' = IF ok
                            THEN [permitidos EXCEPT ![key] = Append(@, now)]
                            ELSE permitidos
           /\ ultima' = Append(ultima, [key |-> key, now |-> now, ok |-> ok])
    /\ UNCHANGED <<db, req, sig, lineas, redondear, totales, identv, huellav, limite>>

\* The limiter as RateLimiter() builds it, for callers that pass limit l.
InitLimitadorCon(l) ==
    /\ requests = <<>>
    /\ last_cleanup = 0
    /\ ahora = 0
    /\ limite = l
    /\ permitidos = [k \in Claves |-> <<>>]
    /\ ultima = <<>>

InitLimitador == InitLimitadorCon(PorDefecto)

\* The database as init_db_postgres.py and the migration leave it.
InitDb ==
    /\ puc = EmptyBag
    /\ facturas = <<>>
    /\ compras = <<>>
    /\ recibos_caja = <<>>
    /\ comprobantes_egreso = <<>>
    /\ notas_credito = <<>>
    /\ transformaciones = <<>>
    /\ movimientos_contables = <<>>
    /\ detalle_factura = <<>>
    /\ detalle_nota_credito = <<>>
    /\ productos = [p \in Productos |-> 0]
    /\ req = [r \in Reqs |-> Idle]

Init ==
    /\ InitDb
    /\ configuracion = ConfigInicial
    /\ sig = SinResultado
    /\ lineas = <<>>
    /\ redondear = TRUE
    /\ totales = SinTotales
    /\ InitIdent
    /\ InitHuella
    /\ InitLimitador

\* The limiter alone: every caller passes the same limit, any key, after any
\* of the waits.
InitRate ==
    /\ InitDb
    /\ configuracion = ConfigInicial
    /\ sig = SinResultado
    /\ lineas = <<>>
    /\ redondear = TRUE
    /\ totales = SinTotales
    /\ InitIdent
    /\ InitHuella
    /\ \E l \in Limites : InitLimitadorCon(l)

NextRate == \E key \in Claves, espera \in Esperas : is_allowed(key, espera)

SpecRate == InitRate /\ [][NextRate]_vars

\* the codes a client sends to add_cuenta: two of the basic accounts and one
\* that seed_puc does not know
Codigos == {"1105", "4135", "9105"}
\* and the names: the client's own, the one seed_puc gives, and none
Nombres == {NombreCliente, NombreBasico, ""}

\* The response reaches the client and the connection is closed (finally:
\* conn.close()); the worker is free for the next request.
cerrar(r) ==
    /\ req[r].pc = "fin"
    /\ req' = [req EXCEPT ![r] = Idle]
    /\ UNCHANGED <<db, puros>>

\* A request without a session is turned away before any input is read, so
\* one representative input stands for all of them.
SinSesion(r) ==
    \/ facturacion_save_leer(r, FALSE, 0, <<>>)
    \/ compras_save(r, FALSE, "contado", 0)
    \/ recibo_caja_save(r, FALSE, 0)
    \/ comprobante_egreso_save(r, FALSE, 0)
    \/ save_nota_credito(r, FALSE, 1, 0, <<>>)
    \/ save_transformacion(r, FALSE, 0, 0)
    \/ add_cuenta(r, FALSE, "1105", NombreBasico)
    \/ seed_puc(r, FALSE)

\* what connection r can do next
Paso(r) ==
    \/ \E n \in {0} \cup Numeros, t \in Valores : facturacion_save_leer(r, TRUE, n, UnaLinea(t))
    \/ facturacion_save_commit(r)
    \/ \E k \in PuntosDeFallo(r) : facturacion_save_error(r, k)
    \/ \E f \in FormasPago \cup {"otro"}, t \in Valores : compras_save(r, TRUE, f, t)
    \/ \E v \in Valores : recibo_caja_save(r, TRUE, v)
    \/ \E v \in Valores : comprobante_egreso_save(r, TRUE, v)
    \/ \E f \in 1..MaxTx, t \in Valores : save_nota_credito(r, TRUE, f, t, UnaDevolucion(t))
    \/ \E s \in Valores, e \in Valores : save_transformacion(r, TRUE, s, e)
    \/ \E f \in Fallos : save_asiento(r, f)
    \/ add_cuenta(r, TRUE, "1105", NombreBasico)
    \/ seed_puc(r, TRUE)
    \/ SinSesion(r)
    \/ cerrar(r)

\* Flask serves requests concurrently: any connection may take the next step.
Next == \E r \in Reqs : Paso(r)

Spec == Init /\ [][Next]_vars

\* The same handlers with one request served at a time.
NextSerie == Paso("r1")

\* The handlers that create a transaction and post it, and the two that edit
\* the chart of accounts: one request at a time, every request with a
\* session, every invoice numbered by the server.
PasoPosteo(r) ==
    \/ \E t \in Valores : facturacion_save_leer(r, TRUE, 0, UnaLinea(t))
    \/ facturacion_save_commit(r)
    \/ \E k \in PuntosDeFallo(r) : facturacion_save_error(r, k)
    \/ \E f \in FormasPago \cup {"otro"}, t \in Valores : compras_save(r, TRUE, f, t)
    \/ \E v \in Valores : recibo_caja_save(r, TRUE, v)
    \/ \E v \in Valores : comprobante_egreso_save(r, TRUE, v)
    \/ \E f \in 1..MaxTx, t \in Valores : save_nota_credito(r, TRUE, f, t, UnaDevolucion(t))
    \/ \E s \in Valores, e \in Valores : save_transformacion(r, TRUE, s, e)
    \/ \E f \in Fallos : save_asiento(r, f)
    \/ add_cuenta(r, TRUE, "1105", NombreBasico)
    \/ seed_puc(r, TRUE)
    \/ cerrar(r)

NextPosteo == PasoPosteo("r1")

SpecPosteo == Init /\ [][NextPosteo]_vars

\* the lines a client sends: of a product of the catalogue or of none, at
\* price 1
LineasDeVenta ==
    {[producto_id |-> p, cantidad |-> c, total |-> c] :
        p \in Productos \cup {ProductoAjeno}, c \in 1..MaxValor}
Pedidos ==
    {<<>>} \cup {<<a>> : a \in LineasDeVenta}
           \cup {<<a, b>> : a \in LineasDeVenta, b \in LineasDeVenta}
Devoluciones ==
    {<<>>} \cup {<<[producto_id |-> p, cantidad |-> c]>> :
                    p \in Productos \cup {ProductoAjeno}, c \in Valores}

\* Invoices with their lines and the credit notes against them, one request
\* at a time, every request with a session.
NextInventario ==
    \/ \E l \in Pedidos : facturacion_save_leer("r1", TRUE, 0, l)
    \/ facturacion_save_commit("r1")
    \/ \E k \in PuntosDeFallo("r1") : facturacion_save_error("r1", k)
    \/ \E f \in 1..MaxTx, t \in Valores, l \in Devoluciones :
           save_nota_credito("r1", TRUE, f, t, l)
    \/ save_asiento("r1", "no")
    \/ cerrar("r1")

SpecInventario == Init /\ [][NextInventario]_vars

\* Every save route without a session, among invoices, receipts and credit
\* notes saved with one; one request at a time.
NextSesion ==
    \/ \E t \in Valores : facturacion_save_leer("r1", TRUE, 0, UnaLinea(t))
    \/ facturacion_save_commit("r1")
    \/ \E k \in PuntosDeFallo("r1") : facturacion_save_error("r1", k)
    \/ \E v \in Valores : recibo_caja_save("r1", TRUE, v)
    \/ \E f \in 1..MaxTx, t \in Valores :
           save_nota_credito("r1", TRUE, f, t, UnaDevolucion(t))
    \/ seed_puc("r1", TRUE)
    \/ \E f \in Fallos : save_asiento("r1", f)
    \/ SinSesion("r1")
    \/ cerrar("r1")

SpecSesion == Init /\ [][NextSesion]_vars

\* The two handlers that edit the chart of accounts, with and without a
\* session, two requests in flight.
PasoPuc(r) ==
    \/ \E c \in Codigos, n \in Nombres : add_cuenta(r, TRUE, c, n)
    \/ seed_puc(r, TRUE)
    \/ add_cuenta(r, FALSE, "1105", NombreBasico)
    \/ seed_puc(r, FALSE)
    \/ cerrar(r)

NextPuc == \E r \in Reqs : PasoPuc(r)

SpecPuc == Init /\ [][NextPuc]_vars

\* Invoices only, every request without a number, two requests in flight.
PasoAuto(r) ==
    \/ \E t \in Valores : facturacion_save_leer(r, TRUE, 0, UnaLinea(t))
    \/ facturacion_save_commit(r)
    \/ \E k \in PuntosDeFallo(r) : facturacion_save_error(r, k)
    \/ \E f \in Fallos : save_asiento(r, f)
    \/ seed_puc(r, TRUE)
    \/ cerrar(r)

NextAuto == \E r \in Reqs : PasoAuto(r)

SpecAuto == Init /\ [][NextAuto]_vars

\* the functions crear_asiento_* and the handler that calls each
OpsAsiento == {"facturacion_save", "compras_save", "recibo_caja_save",
               "comprobante_egreso_save", "save_nota_credito"}

\* A crear_asiento_* function called on its own for row id of its table,
\* whatever the ledger already holds for that row (the model stops calling
\* once the ledger is one posting longer than the handlers can make it).
invocar_crear_asiento(op, id, fallo) ==
    /\ Len(movimientos_contables) <= 2 * MaxTx
    /\ movimientos_contables' = AsientoDe(op, id, fallo)
    /\ UNCHANGED <<puc, tablas, configuracion, inventario, req, puros>>

NextAsiento ==
    \/ NextSerie
    \/ \E op \in OpsAsiento, id \in 1..MaxTx, f \in Fallos :
           invocar_crear_asiento(op, id, f)

SpecAsiento == Init /\ [][NextAsiento]_vars

\* ------------------------------------------------------ ledger claims
Modulos == {"ventas", "compras", "recibo_caja", "egreso", "notas_credito",
            "transformacion"}

\* the table whose row ids a module's ledger entries carry as referencia_id
Filas(modulo) ==
    CASE modulo = "ventas" -> facturas
      [] modulo = "compras" -> compras
      [] modulo = "recibo_caja" -> recibos_caja
      [] modulo = "egreso" -> comprobantes_egreso
      [] modulo = "notas_credito" -> notas_credito
      [] modulo = "transformacion" -> transformaciones

ModuloDe(op) ==
    CASE op = "facturacion_save" -> "ventas"
      [] op = "compras_save" -> "compras"
      [] op = "recibo_caja_save" -> "recibo_caja"
      [] op = "comprobante_egreso_save" -> "egreso"
      [] op = "save_nota_credito" -> "notas_credito"
      [] op = "save_transformacion" -> "transformacion"

\* the account codes the posting of row id looks up in puc
CuentasDe(op, id) ==
    CASE op = "facturacion_save" -> {"1105", "4135"}
      [] op = "compras_save" ->
             {"1435", IF compras[id].forma_pago = "contado" THEN "1105" ELSE "2205"}
      [] op = "recibo_caja_save" -> {"1105", "4199"}
      [] op = "comprobante_egreso_save" -> {"1105", "5195"}
      [] op = "save_nota_credito" -> {"4135", "4175"}
      [] op = "save_transformacion" -> {"1435"}

\* C1: for every transaction reference (module and row id) present in the
\* ledger, its entries number exactly two and their debits sum to their
\* credits.
C1_PartidaDoble ==
    \A m \in Modulos : \A id \in 1..MaxTx :
        LET e == MovimientosDe(m, id)
        IN  e # <<>> => Len(e) = 2 /\ SumSeq(e, "debito") = SumSeq(e, "credito")

\* C2: a committed sale, purchase, receipt, disbursement or credit note is
\* never visible with fewer than its two ledger entries.
C2_NuncaSinAsiento ==
    \A m \in Modulos \ {"transformacion"} : \A id \in DOMAIN Filas(m) :
        Len(MovimientosDe(m, id)) = 2

\* C3: calling a crear_asiento_* function for a transaction that already has
\* its entries adds nothing: no transaction ever carries more than its two
\* ledger entries.
C3_SinDuplicados ==
    \A m \in Modulos : \A id \in 1..MaxTx : Len(MovimientosDe(m, id)) <= 2

\* C4: a posting that cannot resolve one of its accounts leaves the ledger as
\* it was, and no posting (an insert failing or not) ever leaves a
\* transaction with exactly one ledger entry.
C4_TodoONada ==
    [][ /\ \A m \in Modulos : \A id \in 1..MaxTx :
               Len(SelectSeq2(movimientos_contables', m, id)) # 1
        /\ \A r \in Reqs :
               ( /\ req[r].pc = "asiento"
                 /\ req'[r].pc = "fin"
                 /\ ~(CuentasDe(req[r].op, req[r].id) \subseteq codigos_puc) )
               => movimientos_contables' = movimientos_contables ]_vars

\* C4 witness: a sale whose posting found account 1105 but not 4135 has
\* returned, and the ledger holds nothing for it.
C4_Witness ==
    \E r \in Reqs :
        /\ req[r].pc = "fin" /\ req[r].op = "facturacion_save"
        /\ req[r].resp = "success"
        /\ "1105" \in codigos_puc /\ "4135" \notin codigos_puc
        /\ MovimientosDe("ventas", req[r].id) = <<>>

\* C5: within the series, invoice numbers strictly increase in creation
\* order (hence no number is carried twice).
C5_NumerosCrecientes ==
    \A i \in DOMAIN facturas : \A j \in DOMAIN facturas :
        (i < j /\ facturas[i].prefijo = facturas[j].prefijo)
        => facturas[i].numero < facturas[j].numero

\* C6: no two persisted invoices of requests that carried no number share a
\* number (checked where every request carries none).
C6_SinNumeroRepetido ==
    \A i \in DOMAIN facturas : \A j \in DOMAIN facturas :
        i # j => facturas[i].numero # facturas[j].numero

\* C8: no persisted invoice carries a number outside the authorized range.
C8_DentroDelRango ==
    \A i \in DOMAIN facturas :
        /\ facturas[i].numero >= configuracion.dian_rango_desde
        /\ facturas[i].numero <= configuracion.dian_rango_hasta

\* --------------------------------------------------- SequenceAllocator
\* SELECT MAX(numero) FROM facturas WHERE prefijo = ..; NULL reads as 0
UltimoNumero(prefijo) ==
    MaxNumeroDe(SelectSeq(facturas, LAMBDA f : f.prefijo = prefijo))

\* C7 mutant: the comparison with rango_hasta is missing.
SiguienteSinTope(fallo) ==
    IF fallo
    THEN [numero |-> 1, prefijo |-> "SETT", es_valido |-> FALSE,
          mensaje |-> "Error", ultimo_numero |-> 0]
    ELSE LET prefijo == configuracion.dian_prefijo
             ultimo_numero == UltimoNumero(prefijo)
             siguiente_numero == ultimo_numero + 1
         IN  [numero |-> IF siguiente_numero < configuracion.dian_rango_desde
                         THEN configuracion.dian_rango_desde
                         ELSE siguiente_numero,
              prefijo |-> prefijo, es_valido |-> TRUE, mensaje |-> "OK",
              ultimo_numero |-> ultimo_numero]

\* The tuple (numero, prefijo, es_valido, mensaje) the function returns, with
\* the last number it read; fallo: a statement of the try block raised.
Siguiente(fallo) ==
    IF fallo
    THEN [numero |-> 1, prefijo |-> "SETT", es_valido |-> FALSE,
          mensaje |-> "Error", ultimo_numero |-> 0]
    ELSE LET prefijo == configuracion.dian_prefijo
             ultimo_numero == UltimoNumero(prefijo)
             siguiente_numero == ultimo_numero + 1
             rango_desde == configuracion.dian_rango_desde
             rango_hasta == configuracion.dian_rango_hasta
         IN  IF siguiente_numero < rango_desde
             THEN [numero |-> rango_desde, prefijo |-> prefijo,
                   es_valido |-> TRUE, mensaje |-> "OK",
                   ultimo_numero |-> ultimo_numero]
             ELSE IF siguiente_numero > rango_hasta
             THEN [numero |-> siguiente_numero, prefijo |-> prefijo,
                   es_valido |-> FALSE, mensaje |-> "agotado",
                   ultimo_numero |-> ultimo_numero]
             ELSE [numero |-> siguiente_numero, prefijo |-> prefijo,
                   es_valido |-> TRUE, mensaje |-> "OK",
                   ultimo_numero |-> ultimo_numero]

obtener_siguiente_numero_factura(fallo) ==
    /\ sig' = Siguiente(fallo)
    /\ UNCHANGED <<db, limitador, req, lineas, redondear, totales, identv, huellav>>

\* The configurations an administrator can have stored: a series prefix and
\* a range [desde, hasta] with desde <= hasta.
Configs ==
    { [dian_prefijo |-> p, dian_rango_desde |-> d, dian_rango_hasta |-> h] :
        p \in {"SETT", "FE"}, d \in 1..MaxNumero, h \in 1..MaxNumero }

InitSeq ==
    /\ InitDb
    /\ configuracion \in {c \in Configs : c.dian_rango_desde <= c.dian_rango_hasta}
    /\ sig = SinResultado
    /\ lineas = <<>>
    /\ redondear = TRUE
    /\ totales = SinTotales
    /\ InitIdent
    /\ InitHuella
    /\ InitLimitador

\* Invoices are saved one request at a time, and the allocator is asked
\* between any two steps.
NextSeq ==
    \/ \E n \in {0} \cup Numeros, t \in Valores :
           facturacion_save_leer("r1", TRUE, n, UnaLinea(t))
    \/ facturacion_save_commit("r1")
    \/ \E k \in PuntosDeFallo("r1") : facturacion_save_error("r1", k)
    \/ \E f \in Fallos : save_asiento("r1", f)
    \/ cerrar("r1")
    \/ \E f \in BOOLEAN : obtener_siguiente_numero_factura(f)

SpecSeq == InitSeq /\ [][NextSeq]_vars

\* C7 as claimed: whatever the function returns, the number is not below
\* rango_desde and not above rango_hasta.
C7_NumeroSiempreEnRango ==
    sig.mensaje # "-" =>
        /\ sig.numero >= configuracion.dian_rango_desde
        /\ sig.numero <= configuracion.dian_rango_hasta

\* C7 amended: a result flagged valid carries a number inside the range; a
\* candidate below rango_desde is raised to it; a candidate above rango_hasta
\* and a failed lookup are flagged invalid (the tuple then still carries a
\* number: the candidate, or 1).
C7_ValidoEnRango ==
    sig.mensaje # "-" =>
        LET candidato == sig.ultimo_numero + 1
            desde == configuracion.dian_rango_desde
            hasta == configuracion.dian_rango_hasta
        IN  /\ sig.es_valido => (sig.numero >= desde /\ sig.numero <= hasta)
            /\ (sig.mensaje # "Error" /\ candidato < desde)
               => (sig.es_valido /\ sig.numero = desde)
            /\ (sig.mensaje # "Error" /\ candidato > hasta)
               => (~sig.es_valido /\ sig.numero = candidato)
            /\ sig.mensaje = "Error" => (~sig.es_valido /\ sig.numero = 1)

\* C7 witness: the last issued number is the end of the range, and the
\* function has answered with the invalid flag and the number past the end.
C7_Witness ==
    /\ sig.mensaje = "agotado"
    /\ sig.ultimo_numero = configuracion.dian_rango_hasta
    /\ UltimoNumero(configuracion.dian_prefijo) = sig.ultimo_numero
    /\ ~sig.es_valido

\* ---------------------------------------------- InvoiceTotalsCalculator
\* Money is counted in units of 1/10000 peso: two decimals more than the two
\* the function keeps, so that round(x, 2) has something to round.  The
\* model's arithmetic is exact; the binary representation error of Python
\* floats is not modelled.
Peso == 10000
Centavo == Peso \div 100

\* the multiple of m nearest to n, a tie going to the even multiple: what
\* Python 3's round() does
RedondeoPar(n, m) ==
    LET q == n \div m
        r == n % m
    IN  IF 2 * r < m THEN q * m
        ELSE IF 2 * r > m THEN (q + 1) * m
        ELSE IF q % 2 = 0 THEN q * m ELSE (q + 1) * m

\* round(x, 2)
Round2(x) == RedondeoPar(x, Centavo)

\* base * (porcentaje / 100); base is a whole number of centavos, so the
\* quotient is exact
PorCiento(base, porcentaje) == (base \div 100) * porcentaje

Ceros ==
    [subtotal |-> 0, total_descuentos |-> 0, total_cargos |-> 0,
     base_imponible |-> 0, total_iva |-> 0, total_inc |-> 0,
     total_impuestos |-> 0, total_retenciones |-> 0, total_retefuente |-> 0,
     total_reteiva |-> 0, total_reteica |-> 0, redondeo |-> 0, total |-> 0]

\* one pass of the loop body: totales after linea
AcumularLinea(t, linea) ==
    LET subtotal_linea == linea.cantidad * linea.precio
        base_linea == subtotal_linea - linea.descuento + linea.cargo
        impuesto_valor ==
            IF linea.impuesto_porcentaje > 0
            THEN PorCiento(base_linea, linea.impuesto_porcentaje) ELSE 0
        \* linea.get('impuesto_tipo', '01'): the default only for a missing key
        impuesto_tipo ==
            IF linea.impuesto_tipo = "ausente" THEN "01" ELSE linea.impuesto_tipo
        retencion_valor ==
            IF linea.retencion_porcentaje > 0
            THEN PorCiento(base_linea, linea.retencion_porcentaje) ELSE 0
        retencion_tipo ==
            IF linea.retencion_tipo = "ausente" THEN "06" ELSE linea.retencion_tipo
    IN  [t EXCEPT
           !.subtotal = @ + subtotal_linea,
           !.total_descuentos = @ + linea.descuento,
           !.total_cargos = @ + linea.cargo,
           !.base_imponible = @ + base_linea,
           !.total_iva = IF impuesto_tipo = "01" THEN @ + impuesto_valor ELSE @,
           !.total_inc = IF impuesto_tipo = "04" THEN @ + impuesto_valor ELSE @,
           !.total_impuestos = @ + impuesto_valor,
           !.total_retefuente = IF retencion_tipo = "06" THEN @ + retencion_valor ELSE @,
           !.total_reteiva = IF retencion_tipo = "05" THEN @ + retencion_valor ELSE @,
           !.total_reteica = IF retencion_tipo = "07" THEN @ + retencion_valor ELSE @,
           !.total_retenciones = @ + retencion_valor]

\* C12 mutant: the loop returns after its first line.
AcumularPrimera(t, ls) ==
    IF ls = <<>> THEN t ELSE AcumularLinea(t, Head(ls))

RECURSIVE Acumular(_, _)
\* the loop over lineas, from the record t
Acumular(t, ls) ==
    IF ls = <<>> THEN t ELSE Acumular(AcumularLinea(t, Head(ls)), Tail(ls))

\* the local total_antes_redondeo
TotalAntesRedondeo(ls) ==
    LET t == Acumular(Ceros, ls)
    IN  t.base_imponible + t.total_impuestos - t.total_retenciones

\* C11 mutant: int(total_antes_redondeo / 50) * 50 for a total >= 0, the
\* multiple of 50 below.
TotalTruncado(x) == (x \div (50 * Peso)) * (50 * Peso)

\* round(total_antes_redondeo / 50) * 50
TotalRedondeado(x) == RedondeoPar(x, 50 * Peso)

calcular_totales_factura(ls, redondeo) ==
    LET t == Acumular(Ceros, ls)
        total_antes_redondeo == TotalAntesRedondeo(ls)
        u == IF redondeo
             THEN [t EXCEPT !.redondeo = TotalRedondeado(total_antes_redondeo)
                                         - total_antes_redondeo,
                            !.total = TotalRedondeado(total_antes_redondeo)]
             ELSE [t EXCEPT !.total = Round2(total_antes_redondeo)]
    IN  [k \in DOMAIN u |-> Round2(u[k])]

\* The lines the model passes: quantities 0..2 of a product of 25 pesos under
\* every tax code (19 %) or none; a product of 100 pesos under every
\* withholding code (10 %), the code also None; a discount larger than the
\* line, and a charge; a product of 3 centavos, whose tax has four decimals;
\* lines of quantity zero that carry a discount or a charge.
Linea(c, p, d, g, it, ip, rt, rp) ==
    [cantidad |-> c, precio |-> p, descuento |-> d, cargo |-> g,
     impuesto_tipo |-> it, impuesto_porcentaje |-> ip,
     retencion_tipo |-> rt, retencion_porcentaje |-> rp]

LineasPosibles ==
    { Linea(c, 25 * Peso, 0, 0, it, 19, "ausente", 0) :
        c \in 0..2, it \in {"01", "04", "03", "ausente"} }
    \cup { Linea(c, 25 * Peso, 0, 0, "01", 0, "ausente", 0) : c \in 1..2 }
    \cup { Linea(1, 100 * Peso, 0, 0, "01", 19, rt, 10) :
             rt \in {"06", "05", "07", "None", "ausente"} }
    \cup { Linea(1, 25 * Peso, 50 * Peso, 0, "01", 0, "ausente", 0),
           Linea(1, 25 * Peso, 0, 10 * Peso, "01", 0, "ausente", 0),
           Linea(1, 3 * Centavo, 0, 0, "01", 19, "ausente", 0),
           Linea(1, 3 * Centavo, 0, 0, "04", 19, "ausente", 0),
           Linea(0, 25 * Peso, 50 * Peso, 0, "01", 19, "ausente", 0),
           Linea(0, 25 * Peso, 0, 10 * Peso, "01", 0, "06", 10) }

\* the two lines test_validaciones passes
LineasDePrueba ==
    << Linea(2, 50000 * Peso, 0, 0, "01", 19, "None", 0),
       Linea(1, 30000 * Peso, 3000 * Peso, 0, "01", 19, "None", 0) >>

\* lines in one call
MaxLineas == 2

agregar_linea(l) ==
    /\ Len(lineas) < MaxLineas
    /\ lineas' = Append(lineas, l)
    /\ totales' = SinTotales
    /\ UNCHANGED <<db, limitador, req, sig, redondear, identv, huellav>>

calcular(redondeo) ==
    /\ totales' = calcular_totales_factura(lineas, redondeo)
    /\ redondear' = redondeo
    /\ UNCHANGED <<db, limitador, req, sig, lineas, identv, huellav>>

\* test_validaciones builds its list of two lines
test_validaciones_lineas ==
    /\ lineas' = LineasDePrueba
    /\ totales' = SinTotales
    /\ UNCHANGED <<db, limitador, req, sig, redondear, identv, huellav>>

NextTotales ==
    \/ \E l \in LineasPosibles : agregar_linea(l)
    \/ \E b \in BOOLEAN : calcular(b)
    \/ test_validaciones_lineas

SpecTotales == Init /\ [][NextTotales]_vars

\* C9: the returned record satisfies total = base_imponible + (total_iva +
\* total_inc) - (total_retefuente + total_reteiva + total_reteica) + redondeo.
C9_TotalPorBuckets ==
    totales # SinTotales =>
        totales.total = totales.base_imponible
                        + (totales.total_iva + totales.total_inc)
                        - (totales.total_retefuente + totales.total_reteiva
                           + totales.total_reteica)
                        + totales.redondeo

\* C10: with rounding enabled, total is the multiple of 50 nearest to the
\* pre-rounding total, a tie (25 above a multiple of 50) going away from zero.
C10_TieAwayFromZero ==
    (totales # SinTotales /\ redondear) =>
        LET n == TotalAntesRedondeo(lineas)
            m == 50 * Peso
            a == IF n < 0 THEN -n ELSE n
            k == IF 2 * (a % m) >= m THEN ((a \div m) + 1) * m ELSE (a \div m) * m
        IN  totales.total = IF n < 0 THEN -k ELSE k

\* the absolute value of an amount
Abs(x) == IF x < 0 THEN -x ELSE x

\* C11 as claimed: with rounding, redondeo is exactly total minus the
\* pre-rounding total, total is a multiple of 50 and |redondeo| <= 25; without
\* rounding, redondeo is 0 and total is exactly the pre-rounding total.
C11_RedondeoExacto ==
    totales # SinTotales =>
        IF redondear
        THEN /\ totales.redondeo = totales.total - TotalAntesRedondeo(lineas)
             /\ totales.total % (50 * Peso) = 0
             /\ Abs(totales.redondeo) <= 25 * Peso
        ELSE /\ totales.redondeo = 0
             /\ totales.total = TotalAntesRedondeo(lineas)

\* C11 amended: the same, every returned amount being kept to two decimals:
\* redondeo is round(total - pre-rounding total, 2) and, without rounding,
\* total is round(pre-rounding total, 2).
C11_RedondeoDosDecimales ==
    totales # SinTotales =>
        IF redondear
        THEN /\ totales.redondeo
                  = Round2(totales.total - TotalAntesRedondeo(lineas))
             /\ totales.total % (50 * Peso) = 0
             /\ Abs(totales.redondeo) <= 25 * Peso
        ELSE /\ totales.redondeo = 0
             /\ totales.total = Round2(TotalAntesRedondeo(lineas))

\* C11 witness: rounding is on, the pre-rounding total is not a whole number
\* of centavos, and the adjustment returned is not zero.
C11_Witness ==
    /\ totales # SinTotales
    /\ redondear
    /\ TotalAntesRedondeo(lineas) % Centavo # 0
    /\ totales.redondeo # 0

RECURSIVE SumaLineas(_, _)
\* sum over the lines of field f, f = "subtotal" meaning cantidad * precio
SumaLineas(ls, f) ==
    IF ls = <<>> THEN 0
    ELSE (IF f = "subtotal" THEN Head(ls).cantidad * Head(ls).precio
          ELSE Head(ls)[f]) + SumaLineas(Tail(ls), f)

C13_CantidadCeroNoAporta ==
    totales # SinTotales =>
        /\ lineas = <<>> => totales = Ceros
        /\ totales = calcular_totales_factura(
                         SelectSeq(lineas, LAMBDA l : l.cantidad # 0), redondear)

\* ------------------------------------------- IdentityChecksumValidator
\* A Python str is the sequence of its characters.  A value that is None, a
\* str or an int is a record tagged with its type.
Cifras == <<"0", "1", "2", "3", "4", "5", "6", "7", "8", "9">>
Digitos == {Cifras[i] : i \in DOMAIN Cifras}
None == [tipo |-> "None"]
Cadena(s) == [tipo |-> "str", s |-> s]
Entero(n) == [tipo |-> "int", n |-> n]

\* int(digito) for a character int() accepts
ValorCifra(c) == CHOOSE d \in 0..9 : Cifras[d + 1] = c

RECURSIVE StrEntero(_)
\* str(n) for an int n >= 0
StrEntero(n) ==
    IF n < 10 THEN <<Cifras[n + 1]>>
    ELSE StrEntero(n \div 10) \o <<Cifras[(n % 10) + 1]>>

\* str(v) for a str or an int
Str(v) == IF v.tipo = "int" THEN StrEntero(v.n) ELSE v.s

\* C15 mutant: the weights in the opposite order.
pesosAlReves == <<3, 7, 13, 17, 19, 23, 29, 37, 41, 43, 47, 53, 59, 67, 71>>

pesos == <<71, 67, 59, 53, 47, 43, 41, 37, 29, 23, 19, 17, 13, 7, 3>>

\* str(nit).replace('.', '').replace('-', '').replace(' ', '')
Limpiar(n) == SelectSeq(n, LAMBDA c : c \notin {".", "-", " "})

\* nit_str[::-1]
Reverso(t) == [i \in 1..Len(t) |-> t[Len(t) + 1 - i]]

RECURSIVE SumaPesada(_, _)
\* the loop over enumerate(nit_reverso) from index i (1-based here): suma
SumaPesada(nit_reverso, i) ==
    IF i > Len(nit_reverso) THEN 0
    ELSE (IF i <= Len(pesos) THEN ValorCifra(nit_reverso[i]) * pesos[i] ELSE 0)
         + SumaPesada(nit_reverso, i + 1)

\* int(digito) raises ValueError: a character within the weighted positions
\* is not a digit (a character past them is never converted)
LanzaExcepcion(nit_reverso) ==
    \E i \in 1..Len(nit_reverso) : i <= Len(pesos) /\ nit_reverso[i] \notin Digitos

\* the local dv
DigitoDe(nit_reverso) ==
    LET residuo == SumaPesada(nit_reverso, 1) % 11
    IN  IF residuo = 0 \/ residuo = 1 THEN residuo ELSE 11 - residuo

\* C16 mutant: the supplied digit is not compared.
SinComparar(dv, dado) == TRUE

\* str(dv) == str(digito_verificacion)
Compara(dv, dado) == StrEntero(dv) = Str(dado)

\* the tuple (es_valido, digito_calculado) validar_nit returns
validar_nit(n, dado) ==
    LET nit_reverso == Reverso(Limpiar(n))
    IN  IF LanzaExcepcion(nit_reverso)
        THEN [es_valido |-> FALSE, digito_calculado |-> None]
        ELSE LET dv == DigitoDe(nit_reverso)
             IN  IF dado # None
                 THEN [es_valido |-> Compara(dv, dado),
                       digito_calculado |-> Cadena(StrEntero(dv))]
                 ELSE [es_valido |-> TRUE,
                       digito_calculado |-> Cadena(StrEntero(dv))]

\* characters typed around an identifier
MaxTeclas == 2
Alfabeto == {"7", ".", "-", " ", "a"}
Cadenas == UNION {[1..k -> Alfabeto] : k \in 0..MaxTeclas}

\* the identifiers of test_validaciones, one of 15 digits, and none
Semillas ==
    { <<>>,
      <<"9", "0", "0", "1", "2", "3", "4", "5", "6">>,
      <<"8", "0", "0", "1", "9", "7", "2", "6", "8">>,
      <<"8", "9", "0", "9", "0", "0", "6", "0", "8">>,
      <<"1", "2", "3", "4", "5", "6", "7", "8", "9", "0", "1", "2", "3", "4", "5">> }

\* the values of nit
Entradas == {c \o t : c \in Cadenas, t \in Semillas}
            \cup {t \o c : c \in Cadenas, t \in Semillas}

\* the values of digito_verificacion
DigitosDados ==
    {None} \cup {Cadena(<<c>>) : c \in Digitos \cup {"a"}}
    \cup {Entero(d) : d \in 0..9} \cup {Cadena(<<"0", "7">>)}

llamar_validar_nit(dado) ==
    /\ digito_verificacion' = dado
    /\ validacion' = validar_nit(nit, dado)
    /\ UNCHANGED <<db, limitador, req, sig, lineas, redondear, totales, nit, huellav>>

InitNit ==
    /\ InitDb
    /\ configuracion = ConfigInicial
    /\ sig = SinResultado
    /\ lineas = <<>>
    /\ redondear = TRUE
    /\ totales = SinTotales
    /\ nit \in Entradas
    /\ digito_verificacion = None
    /\ validacion = SinValidacion
    /\ InitHuella
    /\ InitLimitador

NextNit == \E dado \in DigitosDados : llamar_validar_nit(dado)

SpecNit == InitNit /\ [][NextNit]_vars

\* the pairs test_validaciones expects to be valid
ParesDeReferencia ==
    { << <<"9", "0", "0", "1", "2", "3", "4", "5", "6">>, "7" >>,
      << <<"8", "0", "0", "1", "9", "7", "2", "6", "8">>, "4" >>,
      << <<"8", "9", "0", "9", "0", "0", "6", "0", "8">>, "6" >> }

\* C14: for each reference pair (900123456, 7), (800197268, 4) and
\* (890900608, 6), validar_nit returns valid and the computed digit is the
\* supplied one.
C14_ParesDeReferencia ==
    \A par \in ParesDeReferencia :
        (validacion # SinValidacion /\ nit = par[1]
         /\ digito_verificacion = Cadena(<<par[2]>>))
        => /\ validacion.es_valido
           /\ validacion.digito_calculado = Cadena(<<par[2]>>)

\* the string is a sequence of digits
EsNumerico(t) == \A i \in 1..Len(t) : t[i] \in Digitos

RECURSIVE SumaDeReferencia(_, _)
\* the digits taken from the right end, the i-th of them (from 0) multiplied
\* by the i-th weight, the digits past the 15th left out
SumaDeReferencia(t, i) ==
    IF t = <<>> \/ i >= 15 THEN 0
    ELSE ValorCifra(t[Len(t)])
           * <<71, 67, 59, 53, 47, 43, 41, 37, 29, 23, 19, 17, 13, 7, 3>>[i + 1]
         + SumaDeReferencia(SubSeq(t, 1, Len(t) - 1), i + 1)

EsUnDigito(dado) ==
    \/ dado.tipo = "str" /\ Len(dado.s) = 1 /\ dado.s[1] \in Digitos
    \/ dado.tipo = "int" /\ dado.n \in 0..9

\* C16: for a numeric identifier, formatted or not, and a single digit d,
\* validar_nit(n, d) is valid exactly when d is the digit validar_nit(n)
\* computes.
C16_IdaYVuelta ==
    (validacion # SinValidacion /\ Limpiar(nit) # <<>> /\ EsNumerico(Limpiar(nit))
     /\ EsUnDigito(digito_verificacion))
    => (validacion.es_valido
        <=> Str(digito_verificacion) = validar_nit(nit, None).digito_calculado.s)

\* C16 witness: a formatted identifier validated with the digit it computes.
C16_Witness ==
    /\ validacion # SinValidacion
    /\ Limpiar(nit) # nit
    /\ Limpiar(nit) # <<>>
    /\ EsNumerico(Limpiar(nit))
    /\ EsUnDigito(digito_verificacion)
    /\ validacion.es_valido

\* C17: an identifier that, stripped of '.', '-' and spaces, is empty or holds
\* a character that is no digit is reported invalid.
C17_MalformadoEsInvalido ==
    (validacion # SinValidacion
     /\ (Limpiar(nit) = <<>> \/ ~EsNumerico(Limpiar(nit))))
    => ~validacion.es_valido

\* --------------------------------------------- FiscalFingerprintGenerator
\* Amounts are whole centavos (floats of at most two decimals, >= 0).
\* f"{float(x):.2f}"
Fmt2(x) ==
    StrEntero(x \div 100) \o <<".">>
    \o <<Cifras[((x % 100) \div 10) + 1], Cifras[(x % 10) + 1]>>

\* strftime("%H"), ("%M"), ("%S"): two digits
DosCifras(n) == <<Cifras[(n \div 10) + 1], Cifras[(n % 10) + 1]>>

\* generar_hora_colombia() when datetime.now() is t seconds past midnight
generar_hora_colombia(t) ==
    DosCifras((t \div 3600) % 24) \o <<":">> \o DosCifras((t \div 60) % 60)
    \o <<":">> \o DosCifras(t % 60) \o <<"-", "0", "5", ":", "0", "0">>

\* valor_total_con_impuestos after the default is applied
TotalConImpuestos(a) ==
    IF a.valor_total_con_impuestos = None
    THEN a.valor_total + a.val_imp_1 + a.val_imp_2 + a.val_imp_3
    ELSE a.valor_total_con_impuestos.n

\* C20 mutant: the third tax slot is written before the second.
CadenaCufeOtroOrden(a) ==
    a.numero_factura \o a.fecha_emision \o a.hora_emision \o Fmt2(a.valor_total)
    \o a.cod_imp_1 \o Fmt2(a.val_imp_1)
    \o a.cod_imp_3 \o Fmt2(a.val_imp_3)
    \o a.cod_imp_2 \o Fmt2(a.val_imp_2)
    \o Fmt2(TotalConImpuestos(a))
    \o a.nit_emisor \o a.tipo_doc_adquirente \o a.num_doc_adquirente
    \o a.clave_tecnica \o a.ambiente

\* the local cadena_cufe
CadenaCufe(a) ==
    a.numero_factura \o a.fecha_emision \o a.hora_emision \o Fmt2(a.valor_total)
    \o a.cod_imp_1 \o Fmt2(a.val_imp_1)
    \o a.cod_imp_2 \o Fmt2(a.val_imp_2)
    \o a.cod_imp_3 \o Fmt2(a.val_imp_3)
    \o Fmt2(TotalConImpuestos(a))
    \o a.nit_emisor \o a.tipo_doc_adquirente \o a.num_doc_adquirente
    \o a.clave_tecnica \o a.ambiente

\* hashlib.sha384(cadena).hexdigest(): 96 lowercase hexadecimal characters
\* that stand for the string hashed; two strings never share a digest.
Sha384Hex(cadena) == [de |-> cadena, largo |-> 96, caja |-> "minusculas"]

\* cufe.upper()
Upper(h) == [h EXCEPT !.caja = "MAYUSCULAS"]

\* C19 mutant: the issue time is read from the clock, not from the argument.
generar_cufe_al_reloj(a) ==
    Upper(Sha384Hex(CadenaCufe([a EXCEPT !.hora_emision = generar_hora_colombia(reloj)])))

generar_cufe(a) == Upper(Sha384Hex(CadenaCufe(a)))

\* 2024-01-15, the date of test_cufe_generation
Fecha == <<"2", "0", "2", "4", "-", "0", "1", "-", "1", "5">>

\* the arguments the model passes: those of test_cufe_generation, the number
\* of one or two digits, each tax value given or left at its default, the
\* total given or omitted, either environment
ArgsPosibles ==
    { [numero_factura |-> n, fecha_emision |-> Fecha,
       hora_emision |-> generar_hora_colombia(37800),
       valor_total |-> 10000000,
       cod_imp_1 |-> <<"0", "1">>, val_imp_1 |-> v1,
       cod_imp_2 |-> <<"0", "4">>, val_imp_2 |-> v2,
       cod_imp_3 |-> <<"0", "3">>, val_imp_3 |-> v3,
       valor_total_con_impuestos |-> t,
       nit_emisor |-> <<"9", "0", "0", "1", "2", "3", "4", "5", "6">>,
       tipo_doc_adquirente |-> <<"1", "3">>,
       num_doc_adquirente |-> <<"1", "2", "3", "4", "5", "6", "7", "8", "9", "0">>,
       clave_tecnica |-> <<"t", "e", "s", "t">>,
       ambiente |-> amb] :
        n \in {<<"1">>, <<"1", "2">>}, v1 \in {0, 1900000}, v2 \in {0, 800},
        v3 \in {0, 5}, t \in {None, Entero(11900000)},
        amb \in {<<"1">>, <<"2">>} }

\* generar_cufe is called with arguments a; the last two calls are kept
llamar_generar_cufe(a) ==
    /\ llamadas' = (IF Len(llamadas) < 2 THEN llamadas ELSE Tail(llamadas))
                   \o << [args |-> a, cufe |-> generar_cufe(a)] >>
    /\ UNCHANGED <<db, limitador, req, sig, lineas, redondear, totales, identv, reloj, cufes>>

\* seconds the clock advances in the model
MaxReloj == 1

\* a second passes
tic ==
    /\ reloj < MaxReloj
    /\ reloj' = reloj + 1
    /\ UNCHANGED <<db, limitador, req, sig, lineas, redondear, totales, identv, llamadas, cufes>>

NextCufe ==
    \/ \E a \in ArgsPosibles : llamar_generar_cufe(a)
    \/ tic

SpecCufe == Init /\ [][NextCufe]_vars

C20_OrdenDeLaCadena ==
    \A i \in DOMAIN llamadas :
        LET a == llamadas[i].args
            cero == <<"0", ".", "0", "0">>
            slot(cod, val) == cod \o (IF val = 0 THEN cero ELSE Fmt2(val))
            total == IF a.valor_total_con_impuestos = None
                     THEN a.valor_total + a.val_imp_1 + a.val_imp_2 + a.val_imp_3
                     ELSE a.valor_total_con_impuestos.n
        IN  llamadas[i].cufe.de
              = a.numero_factura \o a.fecha_emision \o a.hora_emision
                \o Fmt2(a.valor_total)
                \o slot(a.cod_imp_1, a.val_imp_1)
                \o slot(a.cod_imp_2, a.val_imp_2)
                \o slot(a.cod_imp_3, a.val_imp_3)
                \o Fmt2(total)
                \o a.nit_emisor \o a.tipo_doc_adquirente \o a.num_doc_adquirente
                \o a.clave_tecnica \o a.ambiente

\* C20 witness: a call with the second tax slot unused, the third used and
\* the grand total omitted.
C20_Witness ==
    \E i \in DOMAIN llamadas :
        /\ llamadas[i].args.val_imp_2 = 0
        /\ llamadas[i].args.val_imp_3 # 0
        /\ llamadas[i].args.valor_total_con_impuestos = None

\* config.get('empresa_nit', ''): no row of configuracion holds the key
empresa_nit == <<>>
\* config.get('dian_clave_tecnica', ''): the migration stores ""
dian_clave_tecnica == <<>>
\* 'clavetemporaltestpruebas', the key substituted for an empty one
ClaveTemporal == <<"c", "l", "a", "v", "e">>
\* the identity type and number substituted for a customer that has none
SinCliente ==
    [tipo |-> <<"1", "3">>,
     numero |-> <<"2", "2", "2", "2", "2", "2", "2", "2", "2", "2", "2", "2">>]

\* the arguments generar_cufe_factura passes for invoice row f at clock t:
\* no detail line carries a tax value, the subtotal column is 0 so the total
\* stands for it, the customer has no identification, dian_ambiente is '2'
ArgsDeFactura(f, t) ==
    [numero_factura |-> StrEntero(f.numero), fecha_emision |-> Fecha,
     hora_emision |-> generar_hora_colombia(t),
     valor_total |-> f.total * 100,
     cod_imp_1 |-> <<"0", "1">>, val_imp_1 |-> 0,
     cod_imp_2 |-> <<"0", "4">>, val_imp_2 |-> 0,
     cod_imp_3 |-> <<"0", "3">>, val_imp_3 |-> 0,
     valor_total_con_impuestos |-> Entero(f.total * 100),
     nit_emisor |-> empresa_nit,
     tipo_doc_adquirente |-> SinCliente.tipo,
     num_doc_adquirente |-> SinCliente.numero,
     clave_tecnica |-> IF dian_clave_tecnica = <<>> THEN ClaveTemporal
                       ELSE dian_clave_tecnica,
     ambiente |-> <<"2">>]

\* generar_codigo_qr_data: the fields the text is made of
generar_codigo_qr_data(cufe, a, prefijo) ==
    [NumFac |-> prefijo, numero |-> a.numero_factura, FecFac |-> a.fecha_emision,
     ValFac |-> Fmt2(a.valor_total), ValIva |-> Fmt2(a.val_imp_1),
     ValTot |-> Fmt2(TotalConImpuestos(a)), CUFE |-> cufe]

\* the values uuid.uuid4() can return
Uuids == {"u1", "u2"}

\* generar_cufe_factura(conn, factura_id): nothing is written for an id
\* without a row or when a statement raises; otherwise cufe, qr_code and
\* uuid of the row are overwritten and committed.
generar_cufe_factura(factura_id, uuid, fallo) ==
    /\ IF factura_id \notin DOMAIN facturas \/ fallo
       THEN UNCHANGED cufes
       ELSE LET a == ArgsDeFactura(facturas[factura_id], reloj)
                cufe == generar_cufe(a)
            IN  cufes' = [i \in DOMAIN cufes \cup {factura_id} |->
                            IF i = factura_id
                            THEN [cufe |-> cufe,
                                  qr_code |-> generar_codigo_qr_data(
                                      cufe, a, configuracion.dian_prefijo),
                                  uuid |-> uuid]
                            ELSE cufes[i]]
    /\ UNCHANGED <<db, limitador, req, sig, lineas, redondear, totales, identv, llamadas, reloj>>

\* Invoices are saved one request at a time; fingerprints are generated for
\* them at any moment, and time passes.
NextCufeFactura ==
    \/ \E t \in Valores : facturacion_save_leer("r1", TRUE, 0, UnaLinea(t))
    \/ facturacion_save_commit("r1")
    \/ \E k \in PuntosDeFallo("r1") : facturacion_save_error("r1", k)
    \/ \E f \in Fallos : save_asiento("r1", f)
    \/ cerrar("r1")
    \/ tic
    \/ \E id \in 1..MaxTx, u \in Uuids, f \in BOOLEAN : generar_cufe_factura(id, u, f)

SpecCufeFactura == Init /\ [][NextCufeFactura]_vars

\* C18: once generar_cufe_factura has stored a digest for an invoice, no later
\* step changes the stored digest or the stored payload (invoice rows and
\* configuration never change here).
C18_HuellaInmutable ==
    [][ \A id \in DOMAIN cufes :
            /\ id \in DOMAIN cufes'
            /\ cufes'[id].cufe = cufes[id].cufe
            /\ cufes'[id].qr_code = cufes[id].qr_code ]_vars

\* C21: a digest is stored only for an invoice whose issuer identifier, buyer
\* identity type, buyer identifier and technical key are all present: with
\* one of them absent, generar_cufe_factura stores nothing.
C21_SinCabeceraNoHayHuella ==
    (empresa_nit = <<>> \/ dian_clave_tecnica = <<>>) => DOMAIN cufes = {}

\* C22: a posting that resolves no account or whose insert fails reaches the
\* caller as an error: a save handler that answers success has posted the
\* entries of the row it committed.
C22_ExitoImplicaAsiento ==
    \A r \in Reqs :
        (req[r].pc = "fin" /\ req[r].resp = "success" /\ req[r].id > 0)
        => MovimientosDe(ModuloDe(req[r].op), req[r].id) # <<>>

\* every row of bag p is in bag q as many times
Conserva(p, q) ==
    \A f \in BagToSet(p) : BagIn(f, q) /\ CopiesIn(f, q) = CopiesIn(f, p)

\* C23: every ledger entry has exactly one of debit and credit non-zero, and
\* the entries of a transaction carry equal, non-zero debit and credit totals.
C23_UnLadoNoCero ==
    /\ \A i \in DOMAIN movimientos_contables :
           (movimientos_contables[i].debito # 0)
             # (movimientos_contables[i].credito # 0)
    /\ \A m \in Modulos : \A id \in 1..MaxTx :
           LET e == MovimientosDe(m, id)
           IN  e # <<>> => /\ SumSeq(e, "debito") = SumSeq(e, "credito")
                           /\ SumSeq(e, "debito") # 0

\* C24: no two rows of the chart of accounts share a code; add_cuenta either
\* answers an error and leaves the chart as it was, or adds one row whose code
\* was not there; seed_puc keeps every row as it was, adds the basic codes
\* that were missing, and changes nothing when none is missing.
C24_CodigoUnico ==
    [][ /\ \A f \in BagToSet(puc') : \A g \in BagToSet(puc') :
               /\ CopiesIn(f, puc') = 1
               /\ f.codigo = g.codigo => f = g
        /\ \A r \in Reqs :
               (req[r].pc = "idle" /\ req'[r].op = "add_cuenta")
               => \/ req'[r].resp # "success" /\ puc' = puc
                  \/ /\ req'[r].resp = "success"
                     /\ Conserva(puc, puc')
                     /\ Cardinality(codigos_puc' \ codigos_puc) = 1
        /\ \A r \in Reqs :
               (req[r].pc = "idle" /\ req'[r].op = "seed_puc")
               => /\ Conserva(puc, puc')
                  /\ req'[r].resp = "success"
                       => codigos_puc' = codigos_puc \cup cuentas_basicas
                  /\ cuentas_basicas \subseteq codigos_puc => puc' = puc ]_vars

\* C24 witness: seed_puc has run over a chart that already held 1105 under
\* the client's name, which is still there.
C24_Witness ==
    /\ BagIn([codigo |-> "1105", nombre |-> NombreCliente], puc)
    /\ BagIn([codigo |-> "1435", nombre |-> NombreBasico], puc)

\* the debit and credit rows of the k-th posting of the ledger (a posting
\* appends its two rows together, the debit row first)
Asientos ==
    {<<movimientos_contables[i], movimientos_contables[i + 1]>> :
        i \in {j \in DOMAIN movimientos_contables :
                  j % 2 = 1 /\ j + 1 \in DOMAIN movimientos_contables}}

\* C25: each kind of transaction debits and credits a fixed pair of accounts
\* (a purchase credits 1105 when paid 'contado' and 2205 otherwise), and the
\* debit and the credit account of a posting are two different accounts.
C25_ParDeCuentas ==
    \A a \in Asientos :
        LET m == a[1].modulo
            par == <<a[1].cuenta, a[2].cuenta>>
        IN  /\ a[2].modulo = m /\ a[2].referencia_id = a[1].referencia_id
            /\ m = "ventas" => par = <<"1105", "4135">>
            /\ m = "compras" =>
                   par = <<"1435",
                           IF compras[a[1].referencia_id].forma_pago = "contado"
                           THEN "1105" ELSE "2205">>
            /\ m = "recibo_caja" => par = <<"1105", "4199">>
            /\ m = "egreso" => par = <<"5195", "1105">>
            /\ m = "notas_credito" => par = <<"4135", "4175">>
            /\ a[1].cuenta # a[2].cuenta

\* the detail rows of invoice id / of the credit notes against invoice id
DetalleDeFactura(id) == SelectSeq(detalle_factura, LAMBDA d : d.factura_id = id)
DetalleDeNotas(id) ==
    SelectSeq(detalle_nota_credito,
              LAMBDA d : notas_credito[d.nota_id].factura_id = id)

\* C26: a facturacion_save that has read its input either fails and leaves
\* invoices, detail lines and stock as they were, or commits and then the
\* header, one detail row per line and the stock decrement of every line are
\* all there.
C26_FacturaTodoONada ==
    [][ \A r \in Reqs :
          (req[r].pc = "leido" /\ req'[r] # req[r])
          => \/ /\ req'[r].pc = "fin" /\ req'[r].resp = "error"
                /\ facturas' = facturas
                /\ detalle_factura' = detalle_factura
                /\ productos' = productos
             \/ /\ req'[r].pc = "asiento"
                /\ Len(facturas') = Len(facturas) + 1
                /\ SubSeq(facturas', 1, Len(facturas)) = facturas
                /\ facturas'[req'[r].id].total = req[r].total
                /\ Len(detalle_factura') = Len(detalle_factura) + Len(req[r].lines)
                /\ \A i \in DOMAIN req[r].lines :
                       LET d == detalle_factura'[Len(detalle_factura) + i]
                       IN  /\ d.factura_id = req'[r].id
                           /\ d.producto_id = req[r].lines[i].producto_id
                           /\ d.cantidad = req[r].lines[i].cantidad
                /\ \A p \in DOMAIN productos :
                       productos'[p] = productos[p] - Cantidad(req[r].lines, p) ]_vars

\* C26 witness: a request has failed after an invoice of two lines was saved.
C26_Witness ==
    /\ req["r1"].pc = "fin" /\ req["r1"].op = "facturacion_save"
    /\ req["r1"].resp = "error"
    /\ \E id \in DOMAIN facturas : Len(DetalleDeFactura(id)) = 2

C27_BucketsSumanElTotal ==
    totales # SinTotales =>
        /\ totales.total_impuestos = totales.total_iva + totales.total_inc
        /\ totales.total_retenciones
             = totales.total_retefuente + totales.total_reteiva + totales.total_reteica

\* the answers that turn a request away for want of a session
Rechazos == {"no autorizado", "login"}

\* C29: a request that arrives without a session is answered with a
\* rejection in that same step, and the step changes no table.
C29_SinSesionNadaCambia ==
    [][ \A r \in Reqs :
          (req[r].pc = "idle" /\ req'[r].pc # "idle" /\ ~req'[r].sesion)
          => /\ req'[r].pc = "fin"
             /\ req'[r].resp \in Rechazos
             /\ db' = db ]_vars

\* C29 witness: once there are rows to lose, a credit note and a receipt
\* without a session have been turned away.
C29_Witness ==
    /\ facturas # <<>>
    /\ req["r1"].pc = "fin" /\ ~req["r1"].sesion
    /\ req["r1"].op \in {"save_nota_credito", "recibo_caja_save"}

\* C30: for every key, the calls answered True within any span of window
\* seconds number at most max_requests, and a call answered False adds no
\* timestamp to the list of its key.
C30_NoMasDelLimite ==
    [][ /\ \A k \in Claves : \A i \in DOMAIN permitidos'[k] :
               Cardinality({j \in DOMAIN permitidos'[k] :
                              /\ j >= i
                              /\ permitidos'[k][j] - permitidos'[k][i] < limite.window})
                 <= limite.max_requests
        /\ (Len(ultima') > Len(ultima) /\ ~ultima'[Len(ultima')].ok)
           => LET k == ultima'[Len(ultima')].key
              IN  /\ Len(requests'[k]) <= Len(TiemposDe(requests, k))
                  /\ \A i \in DOMAIN requests'[k] :
                         \E j \in DOMAIN TiemposDe(requests, k) :
                             requests[k][j] = requests'[k][i] ]_vars
=============================================================================
